---- MODULE Spec2Model ----
(***************************************************************************)
(* A model of the RayTracer renderer (src/RayTracer/main.cpp and           *)
(* src/RayTracer/rtweekend.h).                                             *)
(*                                                                         *)
(* Two specifications share the module:                                    *)
(*   Spec     main(): random_scene, the row-partitioned worker threads of  *)
(*            multithreaded_raytracing, the shared progress counter, the   *)
(*            shared rand() source, the pixel buffer and the PPM dump;     *)
(*   RaySpec  ray_color(): the recursive shading function, run as a call   *)
(*            stack, one frame per call.                                   *)
(*                                                                         *)
(* Real numbers are fixed-point integers in thousandths (1000 = 1.0).      *)
(***************************************************************************)
EXTENDS Integers, Sequences, FiniteSets

\* ------------------------------------------------------------------ bounds

\* Largest render explored, counted in samples times workers
\* (image_width * image_height * samples_per_pixel * thread_count).
MaxWork == 12
\* Largest value rand() returns (RAND_MAX of the C library).
RandMax == 21
\* Largest bounce budget explored (MAX_DEPTH, main.cpp:20).
MaxDepthBound == 3
\* Largest number of objects in a scene.
MaxObjects == 1

VARIABLES
    \* ---- main() and multithreaded_raytracing
    image_width, image_height, thread_count, samples_per_pixel,
    pc,                \* where main() is
    grid_a, grid_b,    \* the loop variables a and b of random_scene
    scene_rand,        \* the state of rand() when random_scene returned
    tc, cur_row, row_segment,   \* locals of multithreaded_raytracing
    thread_list,       \* the spawned workers, in push_back order
    joined,            \* indices of thread_list that join() returned for
    current_progress, total_progress,
    rand_state,        \* the hidden state of rand()
    output_matrix,     \* color** output_matrix
    writers,           \* per cell: the workers that stored into it, in order
    file_state, outdata, out_j, out_i,
    cerr, cout, exit_status,
    \* ---- ray_color
    world, frames, ray_pc, returned, ray_result, call_log

render_vars == <<image_width, image_height, thread_count, samples_per_pixel,
                 pc, grid_a, grid_b, scene_rand, tc, cur_row, row_segment, thread_list, joined,
                 current_progress, total_progress, rand_state, output_matrix,
                 writers, file_state, outdata, out_j, out_i, cerr, cout,
                 exit_status>>

ray_vars == <<world, frames, ray_pc, returned, ray_result, call_log>>

vars == <<render_vars, ray_vars>>

\* Set once by main() before the render and never assigned again.
cfg_vars == <<image_width, image_height, thread_count, samples_per_pixel,
              total_progress, row_segment>>

\* Assigned by random_scene() only.
scene_vars == <<grid_a, grid_b, scene_rand, world>>

\* The variables of ray_color's call stack.
stack_vars == <<frames, ray_pc, returned, ray_result, call_log>>

file_vars == <<file_state, outdata, out_j, out_i>>

\* ------------------------------------------------------------ fixed point

\* color(0,0,0): also what vec3's default constructor gives.
Black == <<0, 0, 0>>

RECURSIVE ISqrtIter(_, _, _)
\* Largest r in lo..hi with r*r <= x (x >= lo*lo).
ISqrtIter(x, lo, hi) ==
    IF lo >= hi THEN lo
    ELSE LET mid == (lo + hi + 1) \div 2
         IN IF mid * mid <= x THEN ISqrtIter(x, mid, hi)
                              ELSE ISqrtIter(x, lo, mid - 1)

\* sqrt of a non-negative fixed-point number, in thousandths.
FixSqrt(x) == ISqrtIter(x * 1000, 0, x + 1000)

\* rtweekend.h clamp.
clamp(x, min, max) == IF x < min THEN min ELSE IF x > max THEN max ELSE x

\* ------------------------------------------------- rand() and random_double

\* The C library's rand(): a deterministic sequence over 0..RAND_MAX driven
\* by one hidden state shared by every thread; srand is never called, so
\* every run starts from the same seed.
RandSeed == 1

RandNext(state) == (state + 1) % (RandMax + 1)

\* rtweekend.h random_double(): rand() / (RAND_MAX + 1.0), in thousandths.
random_double(r) == (r * 1000) \div (RandMax + 1)

\* ----------------------------------------------------------- random_scene

\* The calls of random_double() one vec3::random() makes: one per component.
Vec3RandomDraws == 3

RECURSIVE RandAfter(_, _)
\* The state of rand() after n further calls.
RandAfter(state, n) == IF n = 0 THEN state ELSE RandAfter(RandNext(state), n - 1)

\* The grid of small spheres: a and b each run from GridFirst up to, and
\* not including, GridEnd.
GridFirst == -3
GridEnd == 3

\* (center - point3(4, 0.2, 0)).length() > 0.9 for center = (x, 0.2, z),
\* compared on the squares.
FarFromFeature(x, z) == (x - 4000) * (x - 4000) + z * z > 900 * 900

\* ----------------------------------------------------- colour of a sample

\* cam.get_ray(u, v) followed by ray_color(r, world, max_depth) for the
\* sample at image-plane coordinates (u, v): a fixed function of the two
\* coordinates (the camera and the scene are read-only during the render).
\* The coordinates are kept as the red and green channels, so that two
\* samples of different coordinates differ. The draws the camera and the
\* materials make themselves are not part of it.
SampleColor(u, v) == <<u, v, 1000>>

\* color.h format_color(pixel_color, samples_per_pixel): per channel divide
\* by the sample count, gamma-correct (square root), clamp to [0,1], scale
\* to [0,255].
FormatChannel(c, samples) == 255 * clamp(FixSqrt(c \div samples), 0, 1000)

format_color(pixel_color, samples) ==
    <<FormatChannel(pixel_color[1], samples),
      FormatChannel(pixel_color[2], samples),
      FormatChannel(pixel_color[3], samples)>>

\* static_cast<int>(double): the fractional part is dropped, so the value
\* is rounded towards zero (-0.5 gives 0, -1.5 gives -1).
static_cast_int(x) == IF x >= 0 THEN x \div 1000 ELSE -((-x) \div 1000)

\* ---------------------------------------------------------------- main()

Rows == 0 .. (image_height - 1)
Cols == 0 .. (image_width - 1)

\* image_matrix(width, height): every cell is color().
image_matrix(width, height) ==
    [j \in 0 .. (height - 1) |-> [i \in 0 .. (width - 1) |-> Black]]

\* One line of image.ppm.
Line(tag, a, b, c) == [tag |-> tag, a |-> a, b |-> b, c |-> c]

RayIdle ==
    /\ frames = <<>>
    /\ ray_pc = "idle"
    /\ returned = Black
    /\ ray_result = Black
    /\ call_log = <<>>

\* main() up to the call of random_scene(), that function's first
\* statements (the ground sphere), and what main() and
\* multithreaded_raytracing set between random_scene() and the spawning
\* loop. Widths and heights start at 2: with 1 the divisions by
\* image_width - 1 and image_height - 1 in process_matrix_rows are divisions
\* by zero.
Init ==
    /\ image_height \in 2 .. MaxWork
    /\ image_width \in 2 .. MaxWork
    /\ samples_per_pixel \in 1 .. MaxWork
    /\ thread_count \in 1 .. MaxWork
    /\ image_width * image_height * samples_per_pixel * thread_count <= MaxWork
    /\ current_progress = 0
    /\ total_progress = image_height
    /\ output_matrix = image_matrix(image_width, image_height)
    /\ writers = [j \in Rows |-> [i \in Cols |-> <<>>]]
    /\ rand_state = RandSeed
    /\ world = <<"lambertian">>
    /\ grid_a = GridFirst
    /\ grid_b = GridFirst
    /\ scene_rand = RandSeed
    /\ thread_list = <<>>
    /\ joined = {}
    /\ cur_row = 0
    /\ row_segment = image_height \div thread_count
    /\ tc = thread_count - 1
    /\ pc = "scene"
    /\ file_state = "unopened"
    /\ outdata = <<>>
    /\ out_j = 0
    /\ out_i = 0
    /\ cerr = {}
    /\ cout = {}
    /\ exit_status = -1
    /\ RayIdle

\* One iteration of the inner loop of random_scene, at grid point
\* (grid_a, grid_b): three draws for choose_mat and the centre, then the
\* material's draws (two colours for a diffuse sphere, one colour and the
\* fuzz for a metal one, none for glass); the sphere's material is added to
\* the world. The two draws of the centre are taken left to right; the
\* distance test holds for either order, x being at most 2.9. No worker
\* exists yet, so the draws follow one another.
SceneSphere ==
    /\ pc = "scene"
    /\ grid_a < GridEnd
    /\ LET r1 == RandNext(rand_state)
           r2 == RandNext(r1)
           r3 == RandNext(r2)
           choose_mat == random_double(r1)
           x == grid_a * 1000 + (900 * random_double(r2)) \div 1000
           z == grid_b * 1000 + (900 * random_double(r3)) \div 1000
       IN IF ~FarFromFeature(x, z)
          THEN rand_state' = r3 /\ world' = world
          ELSE IF choose_mat < 800
          THEN /\ rand_state' = RandAfter(r3, 2 * Vec3RandomDraws)
               /\ world' = Append(world, "lambertian")
          ELSE IF choose_mat < 950
          THEN /\ rand_state' = RandAfter(r3, Vec3RandomDraws + 1)
               /\ world' = Append(world, "metal")
          ELSE /\ rand_state' = r3
               /\ world' = Append(world, "dielectric")
    /\ IF grid_b + 1 < GridEnd
       THEN grid_b' = grid_b + 1 /\ grid_a' = grid_a
       ELSE grid_b' = GridFirst /\ grid_a' = grid_a + 1
    /\ UNCHANGED <<cfg_vars, file_vars, pc, scene_rand, tc, cur_row, thread_list,
                   joined, current_progress, output_matrix, writers, cerr, cout,
                   exit_status, stack_vars>>

\* The loops of random_scene are over: the three feature spheres are added
\* and the function returns; main() goes on to multithreaded_raytracing.
SceneDone ==
    /\ pc = "scene"
    /\ grid_a >= GridEnd
    /\ world' = world \o <<"dielectric", "lambertian", "metal">>
    /\ scene_rand' = rand_state
    /\ pc' = "spawn"
    /\ UNCHANGED <<cfg_vars, file_vars, grid_a, grid_b, tc, cur_row, thread_list,
                   joined, current_progress, rand_state, output_matrix, writers,
                   cerr, cout, exit_status, stack_vars>>

\* BandEnd with the - 1 forgotten: the band runs into the next one.
BandEndInclusive(cur, segment) == cur + segment

\* The last row of the band that starts at cur (main.cpp:133).
BandEnd(cur, segment) == cur + segment - 1

\* A worker as std::thread starts it: process_matrix_rows entered, j at
\* start_row.
NewWorker(start_row, end_row) ==
    [start_row |-> start_row, end_row |-> end_row, j |-> start_row, i |-> 0,
     s |-> 0, pixel_color |-> Black, u |-> 0, loaded |-> 0, at |-> "row"]

\* One iteration of the spawning loop (main.cpp:132-135).
Spawn ==
    /\ pc = "spawn"
    /\ tc >= 0
    /\ thread_list' = Append(thread_list, NewWorker(cur_row, BandEnd(cur_row, row_segment)))
    /\ cur_row' = cur_row + row_segment
    /\ tc' = tc - 1
    /\ UNCHANGED <<cfg_vars, file_vars, pc, joined, current_progress, rand_state,
                   output_matrix, writers, cerr, cout, exit_status, scene_vars, stack_vars>>

\* The spawning loop ends; the joining loop starts at thread_count - 1.
SpawnDone ==
    /\ pc = "spawn"
    /\ tc < 0
    /\ pc' = "join"
    /\ tc' = thread_count - 1
    /\ UNCHANGED <<cfg_vars, file_vars, cur_row, thread_list, joined,
                   current_progress, rand_state, output_matrix, writers, cerr,
                   cout, exit_status, scene_vars, stack_vars>>

\* ------------------------------------------------- process_matrix_rows

Workers == 1 .. Len(thread_list)

\* Worker k's fields changed as upd says.
SetWorker(k, upd) ==
    [thread_list EXCEPT ![k] = [f \in DOMAIN thread_list[k] |->
        IF f \in DOMAIN upd THEN upd[f] ELSE thread_list[k][f]]]

\* update_progress, first half of current_progress++: the load. The counter
\* is a plain int, so another worker may run between the load and the store.
UpdateProgressLoad(k) ==
    /\ thread_list[k].at = "row"
    /\ thread_list[k].j <= thread_list[k].end_row
    /\ thread_list' = SetWorker(k, [loaded |-> current_progress, at |-> "progress_store"])
    /\ UNCHANGED <<cfg_vars, file_vars, pc, tc, cur_row, joined, current_progress,
                   rand_state, output_matrix, writers, cerr, cout, exit_status,
                   scene_vars, stack_vars>>

\* Incremented counting a row twice.
IncrementedTwice(loaded) == loaded + 2

\* What current_progress++ stores for the value it loaded (main.cpp:104).
Incremented(loaded) == loaded + 1

\* update_progress, second half: the store and the message; then the column
\* loop starts with a fresh pixel_color.
UpdateProgressStore(k) ==
    /\ thread_list[k].at = "progress_store"
    /\ current_progress' = Incremented(thread_list[k].loaded)
    /\ cerr' = cerr \cup {"Processing row"}
    /\ thread_list' = SetWorker(k, [i |-> 0, s |-> 0, pixel_color |-> Black,
                                     at |-> "draw_u"])
    /\ UNCHANGED <<cfg_vars, file_vars, pc, tc, cur_row, joined, rand_state,
                   output_matrix, writers, cout, exit_status, scene_vars, stack_vars>>

\* The row loop ends: process_matrix_rows returns and the thread terminates.
WorkerReturn(k) ==
    /\ thread_list[k].at = "row"
    /\ thread_list[k].j > thread_list[k].end_row
    /\ thread_list' = SetWorker(k, [at |-> "done"])
    /\ UNCHANGED <<cfg_vars, file_vars, pc, tc, cur_row, joined, current_progress,
                   rand_state, output_matrix, writers, cerr, cout, exit_status,
                   scene_vars, stack_vars>>

\* (index + jitter) / (extent - 1): the image-plane coordinate of a sample,
\* in thousandths (main.cpp:117-118). extent is at least 2.
PlaneCoordinate(index, jitter, extent) == (index * 1000 + jitter) \div (extent - 1)

\* auto u = (i + random_double()) / (image_width - 1): one call of rand().
DrawU(k) ==
    /\ thread_list[k].at = "draw_u"
    /\ rand_state' = RandNext(rand_state)
    /\ thread_list' = SetWorker(k,
           [u |-> PlaneCoordinate(thread_list[k].i, random_double(rand_state'),
                                  image_width),
            at |-> "draw_v"])
    /\ UNCHANGED <<cfg_vars, file_vars, pc, tc, cur_row, joined, current_progress,
                   output_matrix, writers, cerr, cout, exit_status, scene_vars, stack_vars>>

\* pixel_color += c, component-wise.
AddColor(a, b) == <<a[1] + b[1], a[2] + b[2], a[3] + b[3]>>

\* auto v = (j + random_double()) / (image_height - 1): the second call of
\* rand(); then the ray is shaded, added to pixel_color, and the sample
\* loop goes on or ends.
DrawV(k) ==
    /\ thread_list[k].at = "draw_v"
    /\ rand_state' = RandNext(rand_state)
    /\ LET w == thread_list[k]
           v == PlaneCoordinate(w.j, random_double(rand_state'), image_height)
           c == SampleColor(w.u, v)
       IN thread_list' = SetWorker(k,
              [pixel_color |-> AddColor(w.pixel_color, c), s |-> w.s + 1,
               at |-> IF w.s + 1 < samples_per_pixel THEN "draw_u" ELSE "store"])
    /\ UNCHANGED <<cfg_vars, file_vars, pc, tc, cur_row, joined, current_progress,
                   output_matrix, writers, cerr, cout, exit_status, scene_vars,
                   stack_vars>>

\* output_matrix[j][i] = format_color(pixel_color, samples_per_pixel); then
\* the next column, or the next row.
StorePixel(k) ==
    /\ thread_list[k].at = "store"
    /\ LET w == thread_list[k]
       IN /\ output_matrix' = [output_matrix EXCEPT ![w.j][w.i] =
                                  format_color(w.pixel_color, samples_per_pixel)]
          /\ writers' = [writers EXCEPT ![w.j][w.i] = Append(@, k)]
          /\ thread_list' =
                IF w.i + 1 < image_width
                THEN SetWorker(k, [i |-> w.i + 1, s |-> 0, pixel_color |-> Black,
                                   at |-> "draw_u"])
                ELSE SetWorker(k, [i |-> w.i + 1, j |-> w.j + 1, at |-> "row"])
    /\ UNCHANGED <<cfg_vars, file_vars, pc, tc, cur_row, joined, current_progress,
                   rand_state, cerr, cout, exit_status, scene_vars, stack_vars>>

\* ------------------------------------------------- join, open, dump

\* JoinLoopCond stopping one short: thread_list[0] is never joined.
JoinLoopCondSkipsFirst(t) == t > 0

\* The joining loop's condition (main.cpp:137).
JoinLoopCond(t) == t >= 0

\* thread_list[tc].join(): returns once that thread has terminated.
Join ==
    /\ pc = "join"
    /\ JoinLoopCond(tc)
    /\ thread_list[tc + 1].at = "done"
    /\ joined' = joined \cup {tc + 1}
    /\ tc' = tc - 1
    /\ UNCHANGED <<cfg_vars, file_vars, pc, cur_row, thread_list, current_progress,
                   rand_state, output_matrix, writers, cerr, cout, exit_status,
                   scene_vars, stack_vars>>

\* multithreaded_raytracing returns to main().
JoinDone ==
    /\ pc = "join"
    /\ ~JoinLoopCond(tc)
    /\ pc' = "open"
    /\ UNCHANGED <<cfg_vars, file_vars, tc, cur_row, thread_list, joined,
                   current_progress, rand_state, output_matrix, writers, cerr,
                   cout, exit_status, scene_vars, stack_vars>>

\* outdata.open("image.ppm") succeeds: the stream is good.
OpenSucceeds ==
    /\ pc = "open"
    /\ file_state' = "open"
    /\ pc' = "header"
    /\ UNCHANGED <<cfg_vars, outdata, out_j, out_i, tc, cur_row, thread_list,
                   joined, current_progress, rand_state, output_matrix, writers,
                   cerr, cout, exit_status, scene_vars, stack_vars>>

\* The dump's first row (main.cpp:183).
DumpFirstRow(height) == height - 1

\* outdata << "P3\n" << image_width << ' ' << image_height << "\n255\n".
WriteHeader ==
    /\ pc = "header"
    /\ outdata' = <<Line("P3", 0, 0, 0),
                    Line("size", image_width, image_height, 0),
                    Line("maxval", 255, 0, 0)>>
    /\ out_j' = DumpFirstRow(image_height)
    /\ out_i' = 0
    /\ pc' = "dump"
    /\ UNCHANGED <<cfg_vars, file_state, tc, cur_row, thread_list, joined, current_progress,
                   rand_state, output_matrix, writers, cerr, cout, exit_status,
                   scene_vars, stack_vars>>

\* OpenFailureStatus as exit(0).
OpenFailureStatusZero == 1 - 1

\* The status main() exits with when the file cannot be opened (main.cpp:177).
OpenFailureStatus == 1

\* outdata.open("image.ppm") fails: the message, then exit(1).
OpenFails ==
    /\ pc = "open"
    /\ file_state' = "failed"
    /\ cerr' = cerr \cup {"Error: output file could not be opened."}
    /\ exit_status' = OpenFailureStatus
    /\ pc' = "exited"
    /\ UNCHANGED <<cfg_vars, outdata, out_j, out_i, tc, cur_row, thread_list,
                   joined, current_progress, rand_state, output_matrix, writers,
                   cout, scene_vars,
                   stack_vars>>

\* DumpLoopCond stopping one short: buffer row 0 is never written out.
DumpLoopCondSkipsRowZero(j) == j > 0

\* The dump's row loop condition (main.cpp:183).
DumpLoopCond(j) == j >= 0

\* The line written for one cell (main.cpp:186).
PixelLine(cell) ==
    Line("pixel", static_cast_int(cell[1]), static_cast_int(cell[2]),
         static_cast_int(cell[3]))

\* One pixel line; out_i runs up within the row, out_j runs down.
DumpPixel ==
    /\ pc = "dump"
    /\ DumpLoopCond(out_j)
    /\ cerr' = cerr \cup {"Storing row"}
    /\ outdata' = Append(outdata, PixelLine(output_matrix[out_j][out_i]))
    /\ IF out_i + 1 < image_width
       THEN out_i' = out_i + 1 /\ out_j' = out_j
       ELSE out_i' = 0 /\ out_j' = out_j - 1
    /\ UNCHANGED <<cfg_vars, file_state, pc, tc, cur_row, thread_list, joined,
                   current_progress, rand_state, output_matrix, writers, cout,
                   exit_status, scene_vars, stack_vars>>

\* outdata.close(), the closing messages, return 0.
Finish ==
    /\ pc = "dump"
    /\ ~DumpLoopCond(out_j)
    /\ file_state' = "closed"
    /\ cerr' = cerr \cup {"Done."}
    /\ cout' = cout \cup {"Processing Time", "Ray Tracing completed."}
    /\ exit_status' = 0
    /\ pc' = "done"
    /\ UNCHANGED <<cfg_vars, outdata, out_j, out_i, tc, cur_row, thread_list,
                   joined, current_progress, rand_state, output_matrix, writers,
                   scene_vars, stack_vars>>

Next ==
    \/ SceneSphere
    \/ SceneDone
    \/ Spawn
    \/ SpawnDone
    \/ \E k \in Workers : UpdateProgressLoad(k)
    \/ \E k \in Workers : UpdateProgressStore(k)
    \/ \E k \in Workers : WorkerReturn(k)
    \/ \E k \in Workers : DrawU(k)
    \/ \E k \in Workers : DrawV(k)
    \/ \E k \in Workers : StorePixel(k)
    \/ Join
    \/ JoinDone
    \/ OpenSucceeds
    \/ WriteHeader
    \/ OpenFails
    \/ DumpPixel
    \/ Finish

Spec == Init /\ [][Next]_vars

\* ---------------------------------------------------------------- ray_color

\* Directions of the rays explored: integer vectors of integer length, so
\* that unit_vector is exact in thousandths.
Directions == {<<0, 1, 0>>, <<0, -1, 0>>, <<3, 4, 0>>}

\* vec3 length() and unit_vector(v).
Length(v) == ISqrtIter(v[1] * v[1] + v[2] * v[2] + v[3] * v[3], 0, 1000)

unit_vector(v) ==
    <<(v[1] * 1000) \div Length(v), (v[2] * 1000) \div Length(v),
      (v[3] * 1000) \div Length(v)>>

\* vec3 operator*(vec3, vec3): component-wise product.
MulColor(a, b) ==
    <<(a[1] * b[1]) \div 1000, (a[2] * b[2]) \div 1000, (a[3] * b[3]) \div 1000>>

\* The materials random_scene() builds: the ground's lambertian, the mirror
\* sphere's metal, the glass sphere's dielectric.
Materials ==
    {[kind |-> "lambertian", albedo |-> <<500, 500, 500>>],
     [kind |-> "metal", albedo |-> <<700, 600, 500>>],
     [kind |-> "dielectric", albedo |-> <<1000, 1000, 1000>>]}

\* A scene: the materials of its objects, in the order they were added.
Worlds == UNION {[1 .. n -> Materials] : n \in 0 .. MaxObjects}

\* world.hit(r, MIN_HIT_LIMIT, infinity, rec): 0 for no hit, else the index of
\* the object struck. A scene without objects is never hit; which object of a
\* scene a ray strikes is left open (any, or none).
HitOutcomes(w, r) == {0} \cup (1 .. Len(w))

\* rec.mat_ptr->scatter(r, rec, attenuation, scattered): the set of outcomes.
\* Diffuse and dielectric surfaces always scatter; a metal may absorb. The
\* attenuation is the material's albedo ((1,1,1) for a dielectric).
ScatterOutcomes(m) ==
    {[ok |-> TRUE, attenuation |-> m.albedo, scattered |-> d] : d \in Directions}
    \cup (IF m.kind = "metal"
          THEN {[ok |-> FALSE, attenuation |-> Black, scattered |-> <<0, 1, 0>>]}
          ELSE {})

\* DepthExhausted with < for <=.
DepthExhaustedStrict(depth) == depth < 0

\* NextDepth without the decrement.
NextDepthUnchanged(depth) == depth

\* The bounce limit test (main.cpp:29).
DepthExhausted(depth) == depth <= 0

\* The depth the recursive call is given (main.cpp:36).
NextDepth(depth) == depth - 1

\* SkyColor blending on the x component of the direction instead of y.
SkyColorHorizontal(r) ==
    LET unit_direction == unit_vector(r)
        t == (500 * (unit_direction[1] + 1000)) \div 1000
    IN <<((1000 - t) * 1000 + t * 500) \div 1000,
         ((1000 - t) * 1000 + t * 700) \div 1000,
         ((1000 - t) * 1000 + t * 1000) \div 1000>>

\* The background (main.cpp:40-42).
SkyColor(r) ==
    LET unit_direction == unit_vector(r)
        t == (500 * (unit_direction[2] + 1000)) \div 1000
    IN <<((1000 - t) * 1000 + t * 500) \div 1000,
         ((1000 - t) * 1000 + t * 700) \div 1000,
         ((1000 - t) * 1000 + t * 1000) \div 1000>>

\* A frame of ray_color: its arguments, and the attenuation it multiplies the
\* recursive call's value by.
Frame(r, depth) == [r |-> r, depth |-> depth, attenuation |-> Black]

\* What call_log keeps of one call of ray_color.
LogEntry(r, depth, queried, hit, scatter_called, scattered) ==
    [r |-> r, depth |-> depth, queried |-> queried, hit |-> hit,
     scatter_called |-> scatter_called, scattered |-> scattered,
     returned |-> FALSE, value |-> Black]

RenderIdle ==
    /\ image_width = 2
    /\ image_height = 2
    /\ thread_count = 1
    /\ samples_per_pixel = 1
    /\ pc = "idle"
    /\ grid_a = GridFirst
    /\ grid_b = GridFirst
    /\ scene_rand = RandSeed
    /\ tc = 0
    /\ cur_row = 0
    /\ row_segment = 2
    /\ thread_list = <<>>
    /\ joined = {}
    /\ current_progress = 0
    /\ total_progress = 2
    /\ rand_state = RandSeed
    /\ output_matrix = image_matrix(2, 2)
    /\ writers = [j \in Rows |-> [i \in Cols |-> <<>>]]
    /\ file_state = "unopened"
    /\ outdata = <<>>
    /\ out_j = 0
    /\ out_i = 0
    /\ cerr = {}
    /\ cout = {}
    /\ exit_status = -1

\* ray_color(r, world, depth) has just been called.
RayInit ==
    /\ world \in Worlds
    /\ \E r \in Directions, depth \in -1 .. MaxDepthBound :
          frames = <<Frame(r, depth)>>
    /\ ray_pc = "call"
    /\ returned = Black
    /\ ray_result = Black
    /\ call_log = <<>>
    /\ RenderIdle

Top == frames[Len(frames)]

\* if (depth <= 0) return color(0, 0, 0).
RayColorExhausted ==
    /\ ray_pc = "call"
    /\ DepthExhausted(Top.depth)
    /\ returned' = Black
    /\ ray_pc' = "return"
    /\ call_log' = Append(call_log, LogEntry(Top.r, Top.depth, FALSE, FALSE, FALSE, FALSE))
    /\ UNCHANGED <<world, frames, ray_result, render_vars>>

\* world.hit fails: the background colour.
RayColorMiss ==
    /\ ray_pc = "call"
    /\ ~DepthExhausted(Top.depth)
    /\ 0 \in HitOutcomes(world, Top.r)
    /\ returned' = SkyColor(Top.r)
    /\ ray_pc' = "return"
    /\ call_log' = Append(call_log, LogEntry(Top.r, Top.depth, TRUE, FALSE, FALSE, FALSE))
    /\ UNCHANGED <<world, frames, ray_result, render_vars>>

\* world.hit succeeds and the material absorbs: return color(0, 0, 0).
RayColorAbsorb ==
    /\ ray_pc = "call"
    /\ ~DepthExhausted(Top.depth)
    /\ \E h \in HitOutcomes(world, Top.r) \ {0} :
          \E o \in ScatterOutcomes(world[h]) : ~o.ok
    /\ returned' = Black
    /\ ray_pc' = "return"
    /\ call_log' = Append(call_log, LogEntry(Top.r, Top.depth, TRUE, TRUE, TRUE, FALSE))
    /\ UNCHANGED <<world, frames, ray_result, render_vars>>

\* world.hit succeeds and the material scatters: the recursive call.
RayColorScatter ==
    /\ ray_pc = "call"
    /\ ~DepthExhausted(Top.depth)
    /\ \E h \in HitOutcomes(world, Top.r) \ {0} :
          \E o \in ScatterOutcomes(world[h]) :
             /\ o.ok
             /\ frames' = Append([frames EXCEPT ![Len(frames)].attenuation = o.attenuation],
                                 Frame(o.scattered, NextDepth(Top.depth)))
    /\ call_log' = Append(call_log, LogEntry(Top.r, Top.depth, TRUE, TRUE, TRUE, TRUE))
    /\ UNCHANGED <<world, ray_pc, returned, ray_result, render_vars>>

\* A call returns: its frame is popped; the caller, if any, multiplies the
\* value by its attenuation and returns that in turn.
RayColorReturn ==
    /\ ray_pc = "return"
    /\ LET n == Len(frames)
       IN /\ frames' = SubSeq(frames, 1, n - 1)
          /\ call_log' = [call_log EXCEPT ![n].returned = TRUE, ![n].value = returned]
          /\ IF n = 1
             THEN /\ ray_result' = returned
                  /\ ray_pc' = "done"
                  /\ UNCHANGED returned
             ELSE /\ returned' = MulColor(frames[n - 1].attenuation, returned)
                  /\ UNCHANGED <<ray_pc, ray_result>>
    /\ UNCHANGED <<world, render_vars>>

RayNext ==
    \/ RayColorExhausted
    \/ RayColorMiss
    \/ RayColorAbsorb
    \/ RayColorScatter
    \/ RayColorReturn

RaySpec == RayInit /\ [][RayNext]_vars

\* ================================================================ claims
\* ---------------------------------------------------------------- helpers

\* Every worker has been spawned and has returned from process_matrix_rows.
AllWorkersFinished ==
    /\ Len(thread_list) = thread_count
    /\ \A k \in Workers : thread_list[k].at = "done"

\* main() has reached the output phase.
OutputBegun ==
    \/ pc \in {"open", "header", "dump", "done", "exited"}
    \/ file_state # "unopened"
    \/ outdata # <<>>

\* The number of calls of update_progress worker k has completed.
RowsCounted(k) ==
    LET w == thread_list[k]
    IN (w.j - w.start_row) + (IF w.at \in {"draw_u", "draw_v", "store"} THEN 1 ELSE 0)

RECURSIVE SumRowsCounted(_)
SumRowsCounted(k) == IF k = 0 THEN 0 ELSE RowsCounted(k) + SumRowsCounted(k - 1)

\* The value of the n-th call of rand() since the render started, that is,
\* since random_scene() returned.
RandAt(n) == RandAfter(scene_rand, n)

\* The calls of rand() one sample makes: one for u, one for v.
SampleDraws == 2

RECURSIVE SequentialPixel(_, _, _, _)
\* pixel_color of the pixel (j, i) whose first draw is the (first+1)-th call
\* of rand() of the render, after s samples, when no other thread draws in
\* between.
SequentialPixel(j, i, first, s) ==
    IF s = 0 THEN Black
    ELSE LET n == first + SampleDraws * (s - 1)
         IN AddColor(SequentialPixel(j, i, first, s - 1),
                     SampleColor(
                         PlaneCoordinate(i, random_double(RandAt(n + 1)), image_width),
                         PlaneCoordinate(j, random_double(RandAt(n + 2)), image_height)))

\* The buffer a render leaves when the workers run one after the other, in
\* the order they were spawned: rows, columns and samples then draw in
\* ascending order.
SequentialRender ==
    [j \in Rows |-> [i \in Cols |->
        IF j < thread_count * row_segment
        THEN format_color(
                 SequentialPixel(j, i,
                                 SampleDraws * samples_per_pixel * (j * image_width + i),
                                 samples_per_pixel),
                 samples_per_pixel)
        ELSE Black]]

\* ---------------------------------------------------------------- C1
\* C1: once all workers have finished, every cell of every row 0..H-1 has
\* been written exactly once, for every height H >= 1 and worker count N >= 1.
RowCoverage ==
    AllWorkersFinished =>
        \A j \in Rows : \A i \in Cols : Len(writers[j][i]) = 1

\* What the partitioning does give: the rows written are exactly the first
\* N * floor(H/N), once each; the trailing H mod N rows are never written and
\* keep color(). When N divides H that is every row.
BandCoverage ==
    AllWorkersFinished =>
        \A j \in Rows : \A i \in Cols :
            IF j < thread_count * (image_height \div thread_count)
            THEN Len(writers[j][i]) = 1
            ELSE writers[j][i] = <<>> /\ output_matrix[j][i] = Black

\* ---------------------------------------------------------------- C2
\* C2: in every interleaving no two distinct workers ever write the same
\* cell of output_matrix, and the row bands given to the workers are pairwise
\* disjoint.
WriteDisjointness ==
    /\ \A j \in Rows : \A i \in Cols :
          \A a, b \in 1 .. Len(writers[j][i]) : writers[j][i][a] = writers[j][i][b]
    /\ \A k, l \in Workers :
          k # l =>
             \A j \in Rows :
                ~(/\ thread_list[k].start_row <= j /\ j <= thread_list[k].end_row
                  /\ thread_list[l].start_row <= j /\ j <= thread_list[l].end_row)

\* Two workers have each stored a pixel while the other was still running.
WriteDisjointnessWitness ==
    /\ Len(thread_list) = 2
    /\ thread_list[1].at \notin {"row", "done"}
    /\ thread_list[2].at \notin {"row", "done"}
    /\ \E j1, j2 \in Rows : \E i1, i2 \in Cols :
          /\ writers[j1][i1] = <<1>>
          /\ writers[j2][i2] = <<2>>

\* ---------------------------------------------------------------- C3
\* C3: when main() opens the output file or has emitted any line, all N
\* workers have been spawned, have terminated and have been joined; and no
\* cell of output_matrix changes once output has begun.
JoinBeforeOutput ==
    /\ [](OutputBegun =>
            /\ Len(thread_list) = thread_count
            /\ joined = 1 .. thread_count
            /\ \A k \in Workers : thread_list[k].at = "done")
    /\ [][OutputBegun => output_matrix' = output_matrix /\ writers' = writers]_vars

\* The dump is under way after two workers rendered one row each.
JoinBeforeOutputWitness ==
    /\ pc = "dump"
    /\ thread_count = 2
    /\ Len(outdata) > 3
    /\ \E j1, j2 \in Rows : writers[j1][0] = <<1>> /\ writers[j2][0] = <<2>>

\* ---------------------------------------------------------------- C6
\* C6: the final contents of output_matrix do not depend on how the workers
\* interleave their draws from rand(): every run ends with the buffer the
\* sequential run ends with.
RenderDeterminism ==
    pc = "done" => output_matrix = SequentialRender

\* ---------------------------------------------------------------- C7
\* The integer part of a channel x of the buffer (0 <= x <= 255.0): the n
\* with n <= x < n + 1.
Truncated(x) == CHOOSE n \in 0 .. 255 : n * 1000 <= x /\ x < (n + 1) * 1000

\* C7: the file is the three header lines P3, "W H", 255, then one line per
\* cell, buffer row H-1 first and row 0 last, columns ascending, each line the
\* three channels cast to int; W*H pixel lines in all once main() is done.
OutputStructure ==
    /\ outdata # <<>> =>
          /\ Len(outdata) >= 3
          /\ outdata[1] = Line("P3", 0, 0, 0)
          /\ outdata[2] = Line("size", image_width, image_height, 0)
          /\ outdata[3] = Line("maxval", 255, 0, 0)
          /\ Len(outdata) <= 3 + image_width * image_height
          /\ \A n \in 1 .. (Len(outdata) - 3) :
                LET j == image_height - 1 - ((n - 1) \div image_width)
                    i == (n - 1) % image_width
                    cell == output_matrix[j][i]
                IN outdata[3 + n] =
                      Line("pixel", Truncated(cell[1]), Truncated(cell[2]),
                           Truncated(cell[3]))
    /\ pc = "done" => Len(outdata) = 3 + image_width * image_height

\* A 2x2 image has been written: 3 header lines and 4 pixel lines.
OutputStructureWitness ==
    /\ pc = "done"
    /\ image_width = 2
    /\ image_height = 2
    /\ Len(outdata) = 7
    /\ \A j \in Rows : \A i \in Cols : Len(writers[j][i]) = 1

\* ---------------------------------------------------------------- C8
\* C8: if image.ppm cannot be opened, main() has written the diagnostic,
\* exits with a non-zero status, takes no further step, and no header or
\* pixel line has been written.
UnwritableOutputIsFatal ==
    /\ file_state = "failed" =>
          /\ pc = "exited"
          /\ exit_status > 0
          /\ "Error: output file could not be opened." \in cerr
          /\ outdata = <<>>
          /\ ~ENABLED Next
    /\ pc = "exited" => file_state = "failed"

\* The open failed after a render by two workers.
UnwritableOutputWitness ==
    /\ file_state = "failed"
    /\ pc = "exited"
    /\ thread_count = 2
    /\ \E j \in Rows : writers[j][0] # <<>>

\* ---------------------------------------------------------------- C10
\* C10: current_progress never exceeds the number of rows whose
\* update_progress has completed (and is at least 1 once one has); with two
\* workers an increment can be lost, see the witness.
ProgressNeverExceedsRows ==
    /\ current_progress <= SumRowsCounted(Len(thread_list))
    /\ SumRowsCounted(Len(thread_list)) >= 1 => current_progress >= 1

\* All workers are joined, at least two of them processed a row, and
\* current_progress is strictly less than the number of rows processed.
LostProgressUpdate ==
    /\ pc = "open"
    /\ AllWorkersFinished
    /\ \E k, l \in Workers : k # l /\ RowsCounted(k) >= 1 /\ RowsCounted(l) >= 1
    /\ current_progress < SumRowsCounted(Len(thread_list))

\* ---------------------------------------------------------------- ray_color

\* The depth argument of the outermost call.
InitialDepth == IF call_log # <<>> THEN call_log[1].depth ELSE frames[1].depth

\* The vertical gradient from white to light blue for direction r, written
\* as white minus t times (white - blue).
Gradient(r) ==
    LET len == Length(r)
        t == ((r[2] * 1000) \div len + 1000) \div 2
    IN <<1000 - t \div 2, 1000 - (3 * t) \div 10, 1000>>

\* ---------------------------------------------------------------- C4
\* C4: a call of ray_color with depth = 0 returns exactly black, without
\* querying the scene or calling scatter, whatever the ray and the scene.
DepthZeroIsBlack ==
    /\ \A k \in 1 .. Len(call_log) :
          call_log[k].depth = 0 =>
             /\ ~call_log[k].queried
             /\ ~call_log[k].scatter_called
             /\ call_log[k].returned => call_log[k].value = Black
    /\ (ray_pc = "done" /\ call_log[1].depth = 0) => ray_result = Black

\* The outermost call had depth 0 in a scene with an object, and returned.
DepthZeroWitness ==
    /\ ray_pc = "done"
    /\ world # <<>>
    /\ call_log[1].depth = 0
    /\ ray_result = Black

\* ---------------------------------------------------------------- C5
\* C5 as stated: in a scene without objects ray_color returns the sky
\* gradient of the ray's direction, never black, for every depth argument
\* (every non-negative one: the spec's bounce depths are non-negative).
EmptySceneIsSky ==
    (ray_pc = "done" /\ world = <<>> /\ call_log[1].depth >= 0) =>
        /\ ray_result = Gradient(call_log[1].r)
        /\ ray_result # Black

\* C5 amended: in a scene without objects a call of ray_color with depth >= 1
\* returns the sky gradient of the ray's direction, never black, with no hit,
\* no scatter and no recursive call.
EmptySceneIsSkyAboveZero ==
    (ray_pc = "done" /\ world = <<>> /\ call_log[1].depth >= 1) =>
        /\ ray_result = Gradient(call_log[1].r)
        /\ ray_result # Black
        /\ Len(call_log) = 1
        /\ call_log[1].queried
        /\ ~call_log[1].hit
        /\ ~call_log[1].scatter_called

\* A ray pointing up and sideways was shaded in the empty scene.
EmptySceneWitness ==
    /\ ray_pc = "done"
    /\ world = <<>>
    /\ call_log[1].depth >= 1
    /\ call_log[1].r = <<3, 4, 0>>
    /\ ray_result = <<550, 730, 1000>>

\* ---------------------------------------------------------------- C9
\* The calls still to be made and the frames still to be popped.
RecursionMeasure ==
    Len(frames) + (IF ray_pc = "call" THEN 3 * (IF Top.depth > 0 THEN Top.depth ELSE 0) + 1
                                      ELSE 0)

\* C9: for an initial depth d >= 0, every call's depth is a non-negative
\* integer, the k-th call has depth d - (k - 1), a recursive call is made
\* only by a call that hit and whose material scattered, there are at most d
\* recursive calls, the innermost call returns black (exhaustion, absorption)
\* or the sky value (miss), and every step strictly lowers a non-negative
\* measure, so the chain of calls ends.
BoundedRecursion ==
    /\ [](InitialDepth >= 0 =>
            /\ \A k \in 1 .. Len(frames) : frames[k].depth \in 0 .. InitialDepth
            /\ \A k \in 1 .. Len(call_log) :
                  /\ call_log[k].depth = InitialDepth - (k - 1)
                  /\ call_log[k].depth \in Nat
                  /\ k > 1 => /\ call_log[k - 1].hit
                              /\ call_log[k - 1].scatter_called
                              /\ call_log[k - 1].scattered
                  /\ (call_log[k].returned /\ ~call_log[k].scattered) =>
                        call_log[k].value =
                           IF call_log[k].queried /\ ~call_log[k].hit
                           THEN Gradient(call_log[k].r)
                           ELSE Black
            /\ Len(call_log) <= InitialDepth + 1
            /\ Len(frames) <= InitialDepth + 1
            /\ RecursionMeasure >= 0)
    /\ [][InitialDepth >= 0 => RecursionMeasure' < RecursionMeasure]_vars

\* The bounce budget was used up: MaxDepthBound recursive calls, the last one
\* with depth 0, and the outermost call has returned.
BoundedRecursionWitness ==
    /\ ray_pc = "done"
    /\ Len(call_log) = MaxDepthBound + 1
    /\ call_log[1].depth = MaxDepthBound
    /\ call_log[MaxDepthBound + 1].depth = 0
    /\ ~call_log[MaxDepthBound + 1].queried

====
